---- MODULE Spec2Model ----
(***************************************************************************)
(* FreshGuard: the alert-state and cooldown engine.                        *)
(*                                                                         *)
(* Two ingestion pipelines feed one alerts table:                          *)
(*   - tasks.collect_device_data (Celery tasks, one AlertService each),    *)
(*   - app.process_reading (the Streamlit dashboard script).               *)
(* Ratios are kept in hundredths (0.5 is 50), time in minutes.             *)
(***************************************************************************)
EXTENDS Integers, Sequences, FiniteSets, TLC

\* ---------------------------------------------------------------- bounds
\* Evaluations (task runs and dashboard runs) started in one behaviour.
MaxEvals == 3
\* Evaluations in flight at the same time.
MaxInFlight == 2
\* Exceptions raised by the device, the database or the cache in one
\* behaviour.
MaxFaults == 1
\* The largest ratio (hundredths) of the ratio sweep.
MaxRatio == 120

\* ------------------------------------------------------ program constants
\* config.py: RATIO_FRESH = 0.8, RATIO_WARNING = 0.5 (hundredths).
RATIO_FRESH == 80
RATIO_WARNING == 50
\* alert_service.py: cooldown_minutes = 30 if alert_type == "spoiled" else 60
CooldownSpoiled == 30
CooldownWarning == 60
\* tasks.py: cutoff_date = utcnow() - timedelta(days=30), in minutes.
RetentionMinutes == 43200

\* ------------------------------------------------------------ input sets
Devices == {"esp32_001", "esp32_002"}
Tasks == {"task1", "task2"}
Dash == "dash"
Procs == Tasks \cup {Dash}
\* The dashboard's "Alert Phone Number" text input; "" is its default.
Phones == {"", "+1234567890"}
\* The instants (minutes) at which the clock is read: they lie 10, 25, 30,
\* 35, 55 and 65 minutes apart, on both sides of both cooldown windows.
ClockReadings == {0, 10, 35, 65}
\* Clock readings a month apart: 30 days to the minute, and a minute more.
DayReadings == {0, 43200, 43201}

\* A raw JSON value: a number, a numeric string, null, an absent key, or
\* something float() rejects.
Num(n) == [k |-> "num", v |-> n]
NumStr(n) == [k |-> "numstr", v |-> n]
JNull == [k |-> "null", v |-> 0]
Absent == [k |-> "absent", v |-> 0]
Bad == [k |-> "bad", v |-> 0]

Payload(ro, rs, ratio) == [Ro |-> ro, Rs |-> rs, ratio |-> ratio]

\* What the devices report: ratios 0.81, 0.8 and 0.
RawPayloads ==
    {Payload(Num(100), Num(81), JNull),       \* Rs/Ro = 0.81
     Payload(Num(100), Num(81), NumStr(80)),  \* explicit ratio "0.8"
     Payload(Num(0), Num(81), Num(0)),        \* Ro = 0
     Payload(Bad, Absent, Absent)}            \* nothing usable

\* Devices sweeping every ratio from 0 to MaxRatio hundredths, as Rs/Ro and
\* as an explicit ratio, and a negative ratio.
WidePayloads ==
    {Payload(Num(100), Num(r), Absent) : r \in 0..MaxRatio}
        \cup {Payload(Num(0), Num(0), NumStr(r)) : r \in 1..MaxRatio}
        \cup {Payload(Bad, JNull, Num(0 - 10))}

VARIABLES
    now,          \* datetime.utcnow(), minutes
    alerts,       \* the alerts table
    nextId,       \* the table's autoincrement key
    readings,     \* the sensor_readings table (its distinct rows)
    alert_phone,  \* st.session_state["alert_phone"]
    twilio,       \* AlertService.twilio_client is set
    calls,        \* every send_voice_alert invocation, in order
    pc,           \* the store operation each task / the dashboard is at
    ev,           \* the locals of the evaluation in progress
    nEvals,       \* evaluations started so far
    nFaults,      \* exceptions raised so far
    feed,         \* the scenario: "plain", "sweep", "raw" or "retention"
    settings      \* config.settings, as loaded at import

vars == <<now, alerts, nextId, readings, alert_phone, twilio, calls, pc, ev,
          nEvals, nFaults, feed, settings>>

\* The Settings() of config.py with nothing set in the environment.
DefaultSettings ==
    [RATIO_FRESH |-> RATIO_FRESH, RATIO_WARNING |-> RATIO_WARNING]

\* ------------------------------------------------------------ config.Settings
\* What the environment (or .env) may hold for a threshold: nothing, "0.3",
\* "0.9", or a string float() rejects.
EnvRatios == {Absent, NumStr(30), NumStr(90), Bad}

\* The account SIDs for which v.startswith('AC') holds.
ACSids == {"AC1"}

Environments ==
    [RATIO_FRESH : EnvRatios, RATIO_WARNING : EnvRatios,
     TWILIO_ACCOUNT_SID : {"", "AC1", "SK1"},
     TWILIO_AUTH_TOKEN : {"", "token"}]

\* Settings(): each field is its environment value, parsed to its type, or
\* its default; a value that does not parse and a TWILIO_ACCOUNT_SID that
\* validate_twilio_sid rejects raise at import. No validator looks at the
\* thresholds.
Settings(env) ==
    [valid |-> /\ env.RATIO_FRESH.k # "bad"
               /\ env.RATIO_WARNING.k # "bad"
               /\ (env.TWILIO_ACCOUNT_SID = ""
                     \/ env.TWILIO_ACCOUNT_SID \in ACSids),
     RATIO_FRESH |-> IF env.RATIO_FRESH.k = "numstr"
                     THEN env.RATIO_FRESH.v ELSE RATIO_FRESH,
     RATIO_WARNING |-> IF env.RATIO_WARNING.k = "numstr"
                       THEN env.RATIO_WARNING.v ELSE RATIO_WARNING,
     TWILIO_ACCOUNT_SID |-> env.TWILIO_ACCOUNT_SID,
     TWILIO_AUTH_TOKEN |-> env.TWILIO_AUTH_TOKEN]

\* Mappings mixing usable, missing, null, malformed, zero and negative
\* fields: Ro and Rs in ohms, the explicit ratio in hundredths.
MixedPayloads ==
    {Payload(ro, rs, ratio) :
        ro \in {Absent, JNull, Bad, Num(0), Num(100), Num(0 - 100)},
        rs \in {Absent, Bad, Num(0), Num(90), NumStr(50), Num(0 - 50)},
        ratio \in {Absent, JNull, Bad, Num(0), NumStr(0), Num(45),
                   Num(0 - 10)}}

\* ------------------------------------------------------- Reading Normalizer
\* dict.get(key, default): an absent key yields the default, which is the
\* number 0.0 for Ro/Rs and None for ratio; both go through safe_float.
\* safe_float falling back to 1.0 instead of 0.0.
safe_float_default_one(value) ==
    IF value.k \in {"num", "numstr"} THEN value.v ELSE 100

\* safe_float: float(value) if value is not None else 0.0; 0.0 on
\* ValueError/TypeError.
safe_float(value) ==
    IF value.k \in {"num", "numstr"} THEN value.v ELSE 0

\* ratio = rs / ro in hundredths; the payload sets make the division exact.
normalize_reading(raw_data) ==
    LET ro == safe_float(raw_data.Ro)
        rs == safe_float(raw_data.Rs)
        ratio == safe_float(raw_data.ratio)
    IN  [ro |-> ro, rs |-> rs,
         ratio |-> IF ratio = 0 /\ ro > 0 THEN (rs * 100) \div ro ELSE ratio]

\* save_reading: is_alert = reading_data["ratio"] <= settings.RATIO_WARNING.
\* The row's timestamp is kept where rows are pruned by age.
ReadingRow(device_id, ratio) ==
    [device_id |-> device_id, ratio |-> ratio,
     is_alert |-> (ratio <= settings.RATIO_WARNING),
     timestamp |-> IF feed = "retention" THEN now ELSE 0]

\* ------------------------------------------------------------ Alert Engine
\* collect_device_data with "ratio < settings.RATIO_WARNING" for "<=".
ClassifyTaskStrict(ratio) ==
    IF ratio < settings.RATIO_WARNING THEN "spoiled"
    ELSE IF ratio <= settings.RATIO_FRESH THEN "warning"
    ELSE "fresh"

\* The if/elif/else over the ratio in collect_device_data.
ClassifyTask(ratio) ==
    IF ratio <= settings.RATIO_WARNING THEN "spoiled"
    ELSE IF ratio <= settings.RATIO_FRESH THEN "warning"
    ELSE "fresh"

\* The if/elif/else over the ratio in process_reading.
ClassifyApp(ratio) ==
    IF ratio <= settings.RATIO_WARNING THEN "spoiled"
    ELSE IF ratio <= settings.RATIO_FRESH THEN "warning"
    ELSE "fresh"

Cooldown(alert_type) ==
    IF alert_type = "spoiled" THEN CooldownSpoiled ELSE CooldownWarning

\* should_send_alert's query without its alert_type filter.
RecentAlertsAnyKind(table, device_id, alert_type, t) ==
    {a \in table : /\ a.device_id = device_id
                   /\ a.timestamp >= t - Cooldown(alert_type)
                   /\ a.is_resolved = FALSE}

\* The rows should_send_alert's query matches: same device, same type,
\* timestamp >= since, not resolved.
RecentAlerts(table, device_id, alert_type, t) ==
    {a \in table : /\ a.device_id = device_id
                   /\ a.alert_type = alert_type
                   /\ a.timestamp >= t - Cooldown(alert_type)
                   /\ a.is_resolved = FALSE}

\* should_send_alert answering True whatever the table holds.
should_send_alert_always(table, device_id, alert_type, t) == TRUE

should_send_alert(table, device_id, alert_type, t) ==
    RecentAlerts(table, device_id, alert_type, t) = {}

\* resolve_alerts filtering on the "spoiled" type although none was asked.
resolve_alerts_spoiled_only(table, device_id, alert_type) ==
    {IF /\ a.device_id = device_id
        /\ a.is_resolved = FALSE
        /\ a.alert_type = "spoiled"
     THEN [a EXCEPT !.is_resolved = TRUE]
     ELSE a : a \in table}

\* resolve_alerts without the Alert.device_id == device_id of its query.
resolve_alerts_all_devices(table, device_id, alert_type) ==
    {IF /\ a.is_resolved = FALSE
        /\ (alert_type = "" \/ a.alert_type = alert_type)
     THEN [a EXCEPT !.is_resolved = TRUE]
     ELSE a : a \in table}

\* resolve_alerts assigning "not alert.is_resolved" to every row of the
\* device.
resolve_alerts_toggle(table, device_id, alert_type) ==
    {IF /\ a.device_id = device_id
        /\ (alert_type = "" \/ a.alert_type = alert_type)
     THEN [a EXCEPT !.is_resolved = ~a.is_resolved]
     ELSE a : a \in table}

\* resolve_alerts also stamping the rows it resolves with utcnow().
resolve_alerts_restamp(table, device_id, alert_type) ==
    {IF /\ a.device_id = device_id
        /\ a.is_resolved = FALSE
        /\ (alert_type = "" \/ a.alert_type = alert_type)
     THEN [a EXCEPT !.is_resolved = TRUE, !.timestamp = now]
     ELSE a : a \in table}

\* resolve_alerts(device_id): every unresolved row of the device is set
\* resolved; alert_type = "" stands for the omitted argument.
resolve_alerts(table, device_id, alert_type) ==
    {IF /\ a.device_id = device_id
        /\ a.is_resolved = FALSE
        /\ (alert_type = "" \/ a.alert_type = alert_type)
     THEN [a EXCEPT !.is_resolved = TRUE]
     ELSE a : a \in table}

\* The Alert(...) row create_alert adds; call_sid "" is NULL.
AlertRow(id, device_id, alert_type, ratio, phone_number, ts, call_sid) ==
    [id |-> id, device_id |-> device_id, alert_type |-> alert_type,
     ratio_value |-> ratio, phone_number |-> phone_number,
     timestamp |-> ts, is_resolved |-> FALSE, call_sid |-> call_sid]

\* The empty mapping {}.
NoRaw == Payload(Absent, Absent, Absent)

NoEval ==
    [device_id |-> "", raw |-> NoRaw, ratio |-> 0, kind |-> "none",
     only |-> "", phone |-> "", ts |-> 0, call_sid |-> "", created |-> 0,
     notified |-> "none", outcome |-> "none", faulted |-> "none",
     prior |-> "none", preUnres |-> {}, retry |-> FALSE]

Init ==
    /\ now = 0
    /\ alerts = {}
    /\ nextId = 1
    /\ readings = {}
    /\ alert_phone = ""
    /\ twilio \in BOOLEAN
    /\ calls = << >>
    /\ pc = [p \in Procs |-> "idle"]
    /\ ev = [p \in Procs |-> NoEval]
    /\ nEvals = 0
    /\ nFaults = 0
    /\ feed = "plain"
    /\ settings = DefaultSettings

\* One evaluation over the ratio sweep.
InitWide ==
    /\ now = 0
    /\ alerts = {}
    /\ nextId = 1
    /\ readings = {}
    /\ alert_phone = ""
    /\ twilio \in BOOLEAN
    /\ calls = << >>
    /\ pc = [p \in Procs |-> "idle"]
    /\ ev = [p \in Procs |-> NoEval]
    /\ nEvals = MaxEvals - 1
    /\ nFaults = 0
    /\ feed = "sweep"
    /\ settings = DefaultSettings

\* One evaluation over the mixed mappings.
InitRaw ==
    /\ now = 0
    /\ alerts = {}
    /\ nextId = 1
    /\ readings = {}
    /\ alert_phone = ""
    /\ twilio \in BOOLEAN
    /\ calls = << >>
    /\ pc = [p \in Procs |-> "idle"]
    /\ ev = [p \in Procs |-> NoEval]
    /\ nEvals = MaxEvals - 1
    /\ nFaults = 0
    /\ feed = "raw"
    /\ settings = DefaultSettings

\* The process starts under any environment Settings() accepts;
\* AlertService.__init__ builds the Twilio client when both credentials are
\* set. One evaluation follows.
InitConfig ==
    /\ now = 0
    /\ alerts = {}
    /\ nextId = 1
    /\ readings = {}
    /\ alert_phone = ""
    /\ \E env \in Environments :
          /\ Settings(env).valid
          /\ settings = [RATIO_FRESH |-> Settings(env).RATIO_FRESH,
                         RATIO_WARNING |-> Settings(env).RATIO_WARNING]
          /\ twilio = (/\ Settings(env).TWILIO_ACCOUNT_SID # ""
                       /\ Settings(env).TWILIO_AUTH_TOKEN # "")
    /\ calls = << >>
    /\ pc = [p \in Procs |-> "idle"]
    /\ ev = [p \in Procs |-> NoEval]
    /\ nEvals = MaxEvals - 1
    /\ nFaults = 0
    /\ feed = "plain"

\* The Celery worker over a month.
InitCleanup ==
    /\ now = 0
    /\ alerts = {}
    /\ nextId = 1
    /\ readings = {}
    /\ alert_phone = ""
    /\ twilio \in BOOLEAN
    /\ calls = << >>
    /\ pc = [p \in Procs |-> "idle"]
    /\ ev = [p \in Procs |-> NoEval]
    /\ nEvals = 0
    /\ nFaults = 0
    /\ feed = "retention"
    /\ settings = DefaultSettings

\* Time passes. The clock readings lie minutes apart and an evaluation lasts
\* seconds (REQUEST_TIMEOUT = 3.0), so the clock moves between evaluations.
Tick ==
    /\ \A p \in Procs : pc[p] = "idle"
    /\ \E t \in (IF feed = "retention" THEN DayReadings ELSE ClockReadings) :
          /\ t > now
          /\ now' = t
    /\ UNCHANGED <<alerts, nextId, readings, alert_phone, twilio, calls, pc,
                   ev, nEvals, nFaults, feed, settings>>

\* ------------------------------------------------------- shared pieces
Payloads ==
    IF feed = "sweep" THEN WidePayloads
    ELSE IF feed = "raw" THEN MixedPayloads
    ELSE RawPayloads

\* What the except clause of each pipeline makes of an exception:
\* collect_device_data returns {"status": "error"}, process_reading logs
\* and re-raises.
OnException(p) == IF p \in Tasks THEN "error" ELSE "raised"

\* Whether the device, the database or the cache may raise at this step.
Faults == IF nFaults < MaxFaults THEN {TRUE, FALSE} ELSE {FALSE}

Count(fault) == nFaults' = IF fault THEN nFaults + 1 ELSE nFaults

UnresolvedIds(device_id) ==
    {a.id : a \in {b \in alerts : b.device_id = device_id /\ ~b.is_resolved}}

\* What the table holds for (device, kind) as a reading arrives: "active" is
\* an unresolved row inside the cooldown window, "expired" unresolved rows
\* that are all older, "resolved" no unresolved row but a resolved one inside
\* the window, "none" none of these.
Prior(device_id, kind) ==
    IF kind = "fresh" THEN "none"
    ELSE IF ~should_send_alert(alerts, device_id, kind, now) THEN "active"
    ELSE IF \E a \in alerts : /\ a.device_id = device_id
                               /\ a.alert_type = kind
                               /\ ~a.is_resolved
         THEN "expired"
    ELSE IF \E a \in alerts : /\ a.device_id = device_id
                               /\ a.alert_type = kind
                               /\ a.timestamp >= now - Cooldown(kind)
         THEN "resolved"
    ELSE "none"

\* The locals of a fresh evaluation, with what it found on entry. The raw
\* mapping is kept for the sweeps only.
NewEval(device_id, raw_data, ratio, kind, retry) ==
    [NoEval EXCEPT
        !.device_id = device_id,
        !.raw = IF feed = "plain" THEN NoRaw ELSE raw_data,
        !.ratio = ratio,
        !.kind = kind,
        !.prior = Prior(device_id, kind),
        !.preUnres = UnresolvedIds(device_id),
        !.retry = retry]

\* p goes on with locals e; evaluations already in flight are no longer
\* alone.
Enter(p, e) ==
    ev' = [q \in Procs |-> IF q = p THEN e
                           ELSE [ev[q] EXCEPT !.retry = FALSE]]

\* The exception of `what` reaches the pipeline's except clause.
Raise(p, e, what) ==
    /\ pc' = [pc EXCEPT ![p] = "done"]
    /\ Enter(p, [e EXCEPT !.outcome = OnException(p), !.faulted = what])

\* save_reading without its session.add and commit.
save_reading_never(device_id, ratio, committed) ==
    readings' = readings

\* save_reading: the row is committed, then the cache is written.
save_reading(device_id, ratio, committed) ==
    readings' = IF committed
                THEN readings \cup {ReadingRow(device_id, ratio)}
                ELSE readings

\* create_alert without the "phone_number and" of its condition.
WantsNotifyAlways(phone_number) == TRUE

\* "if phone_number and ...": None and "" are both falsy.
WantsNotify(phone_number) == phone_number # ""

\* create_alert(device_id, alert_type, ratio, phone_number) is called: the
\* Alert object is built with timestamp = utcnow(); what follows is its
\* should_send_alert query (with a phone number) or its commit (without).
CallCreateAlert(p, e, phone_number) ==
    /\ pc' = [pc EXCEPT ![p] =
                 IF WantsNotify(phone_number) THEN "create" ELSE "insert"]
    /\ Enter(p, [e EXCEPT !.phone = phone_number, !.ts = now])

\* send_voice_alert without its try/except: the exception of calls.create
\* escapes to create_alert's caller.
send_voice_alert_unguarded(delivered) ==
    IF ~twilio THEN [result |-> "unconfigured", sid |-> "", escapes |-> FALSE]
    ELSE IF delivered
    THEN [result |-> "sent", sid |-> "CA1", escapes |-> FALSE]
    ELSE [result |-> "raised", sid |-> "", escapes |-> TRUE]

\* send_voice_alert returning a sid from its except clause too.
send_voice_alert_sid_on_failure(delivered) ==
    IF ~twilio THEN [result |-> "unconfigured", sid |-> "", escapes |-> FALSE]
    ELSE IF delivered
    THEN [result |-> "sent", sid |-> "CA1", escapes |-> FALSE]
    ELSE [result |-> "raised", sid |-> "CA1", escapes |-> FALSE]

\* send_voice_alert: None without a Twilio client, None when calls.create
\* raises (except Exception lets nothing escape), the call's sid otherwise.
send_voice_alert(delivered) ==
    IF ~twilio THEN [result |-> "unconfigured", sid |-> "", escapes |-> FALSE]
    ELSE IF delivered
    THEN [result |-> "sent", sid |-> "CA1", escapes |-> FALSE]
    ELSE [result |-> "raised", sid |-> "", escapes |-> FALSE]

\* ------------------------------------------------- tasks.collect_device_data
\* The pool hands a task to its first free worker: the second runs one only
\* while the first is busy.
WorkerFree(p) == p = "task1" \/ pc["task1"] # "idle"

InFlight == {q \in Procs : pc[q] # "idle"}

\* What may raise while a reading is fetched and saved: the device, the
\* reading's commit, the cache write after it.
IngestFaults(kinds) ==
    {"none"} \cup (IF nFaults < MaxFaults THEN kinds ELSE {})

\* fetch_device_status, normalize_reading, save_reading and the if/elif/else
\* over the ratio, up to the alert service's first store operation.
collect_device_data_body(p, device_id, raw_data, fault, retry) ==
    LET ratio == normalize_reading(raw_data).ratio
        kind == ClassifyTask(ratio)
        e == NewEval(device_id, raw_data, ratio, kind, retry)
    IN  /\ nEvals' = nEvals + 1
        /\ Count(fault # "none")
        /\ save_reading(device_id, ratio, fault \in {"none", "cache"})
        /\ IF fault # "none" THEN Raise(p, e, fault)
           ELSE IF kind = "fresh"
           THEN /\ pc' = [pc EXCEPT ![p] = "resolve"]
                /\ Enter(p, e)
           ELSE CallCreateAlert(p, e, "")
        /\ UNCHANGED <<now, alerts, nextId, alert_phone, twilio, calls, feed,
                       settings>>

\* A worker runs the task for a device's next reading.
collect_device_data(p) ==
    /\ pc[p] = "idle"
    /\ WorkerFree(p)
    /\ nEvals < MaxEvals
    /\ Cardinality(InFlight) < MaxInFlight
    /\ \E device_id \in Devices, raw_data \in Payloads,
          fault \in IngestFaults({"fetch", "commit", "cache"}) :
          collect_device_data_body(p, device_id, raw_data, fault, FALSE)

\* The task is run again at once for the reading it just evaluated.
collect_device_data_again(p) ==
    /\ pc[p] = "done"
    /\ ev[p].outcome = "success"
    /\ nEvals < MaxEvals
    /\ \E raw_data \in Payloads,
          fault \in IngestFaults({"fetch", "commit", "cache"}) :
          /\ normalize_reading(raw_data).ratio = ev[p].ratio
          /\ collect_device_data_body(p, ev[p].device_id, raw_data, fault,
                                      InFlight = {p})

\* ------------------------------------------------------ app.process_reading
\* The script run: the sidebar's values are persisted to the session state,
\* then process_reading normalizes, saves and classifies the reading.
process_reading_body(device_id, raw_data, phone, fault, retry) ==
    LET ratio == normalize_reading(raw_data).ratio
        kind == ClassifyApp(ratio)
        e == NewEval(device_id, raw_data, ratio, kind, retry)
    IN  /\ nEvals' = nEvals + 1
        /\ alert_phone' = phone
        /\ Count(fault # "none")
        /\ save_reading(device_id, ratio, fault \in {"none", "cache"})
        /\ IF fault # "none" THEN Raise(Dash, e, fault)
           ELSE IF kind = "spoiled"
           THEN IF phone # ""
                THEN /\ pc' = [pc EXCEPT ![Dash] = "check"]
                     /\ Enter(Dash, e)
                ELSE /\ pc' = [pc EXCEPT ![Dash] = "done"]
                     /\ Enter(Dash, [e EXCEPT !.outcome = "success"])
           ELSE IF kind = "warning"
           THEN CallCreateAlert(Dash, e, "")
           ELSE /\ pc' = [pc EXCEPT ![Dash] = "resolve"]
                /\ Enter(Dash, e)
        /\ UNCHANGED <<now, alerts, nextId, twilio, calls, feed, settings>>

\* The dashboard refreshes with the device's next reading.
process_reading ==
    /\ pc[Dash] = "idle"
    /\ nEvals < MaxEvals
    /\ Cardinality(InFlight) < MaxInFlight
    /\ \E device_id \in Devices, raw_data \in Payloads, phone \in Phones,
          fault \in IngestFaults({"commit", "cache"}) :
          process_reading_body(device_id, raw_data, phone, fault, FALSE)

\* The dashboard is refreshed at once ("Fetch Now") on the same reading.
process_reading_again ==
    /\ pc[Dash] = "done"
    /\ ev[Dash].outcome = "success"
    /\ nEvals < MaxEvals
    /\ \E raw_data \in Payloads, fault \in IngestFaults({"commit", "cache"}) :
          /\ normalize_reading(raw_data).ratio = ev[Dash].ratio
          /\ process_reading_body(ev[Dash].device_id, raw_data, alert_phone,
                                  fault, InFlight = {Dash})

\* process_reading's own should_send_alert, before it calls create_alert.
process_reading_check ==
    /\ pc[Dash] = "check"
    /\ \E fault \in Faults :
          /\ Count(fault)
          /\ IF fault THEN Raise(Dash, ev[Dash], "history")
             ELSE IF should_send_alert(alerts, ev[Dash].device_id,
                                       ev[Dash].kind, now)
             THEN CallCreateAlert(Dash, ev[Dash], alert_phone)
             ELSE /\ pc' = [pc EXCEPT ![Dash] = "done"]
                  /\ Enter(Dash, [ev[Dash] EXCEPT !.outcome = "success"])
    /\ UNCHANGED <<now, alerts, nextId, readings, alert_phone, twilio, calls,
                   nEvals, feed, settings>>

\* ------------------------------------------------------------ AlertService
\* create_alert with a phone number: should_send_alert and, when it says so,
\* send_voice_alert.
create_alert_notify(p) ==
    /\ pc[p] = "create"
    /\ \E fault \in Faults, delivered \in BOOLEAN :
          /\ Count(fault)
          /\ IF fault
             THEN Raise(p, ev[p], "history") /\ calls' = calls
             ELSE IF should_send_alert(alerts, ev[p].device_id, ev[p].kind,
                                       now)
             THEN LET r == send_voice_alert(delivered)
                      e == [ev[p] EXCEPT !.call_sid = r.sid,
                                         !.notified = r.result]
                  IN  /\ calls' = Append(calls,
                             [device_id |-> ev[p].device_id,
                              alert_type |-> ev[p].kind,
                              to |-> ev[p].phone, result |-> r.result])
                      /\ IF r.escapes
                         THEN Raise(p, e, "notifier")
                         ELSE /\ Enter(p, e)
                              /\ pc' = [pc EXCEPT ![p] = "insert"]
             ELSE /\ calls' = calls
                  /\ Enter(p, ev[p])
                  /\ pc' = [pc EXCEPT ![p] = "insert"]
    /\ UNCHANGED <<now, alerts, nextId, readings, alert_phone, twilio, nEvals,
                   feed, settings>>

\* create_alert: session.add, commit, refresh.
create_alert_commit(p) ==
    /\ pc[p] = "insert"
    /\ \E fault \in Faults :
          /\ Count(fault)
          /\ IF fault
             THEN /\ Raise(p, ev[p], "history")
                  /\ UNCHANGED <<alerts, nextId>>
             ELSE /\ alerts' = alerts \cup
                        {AlertRow(nextId, ev[p].device_id, ev[p].kind,
                                  ev[p].ratio, ev[p].phone, ev[p].ts,
                                  ev[p].call_sid)}
                  /\ nextId' = nextId + 1
                  /\ pc' = [pc EXCEPT ![p] = "done"]
                  /\ Enter(p, [ev[p] EXCEPT !.created = nextId,
                                            !.outcome = "success"])
    /\ UNCHANGED <<now, readings, alert_phone, twilio, calls, nEvals,
                   feed, settings>>

\* resolve_alerts(device_id, alert_type) called on its own, with or without
\* an alert_type; an exception reaches the caller.
resolve_alerts_call ==
    /\ pc[Dash] = "idle"
    /\ nEvals = MaxEvals
    /\ Cardinality(InFlight) < MaxInFlight
    /\ \E device_id \in Devices, alert_type \in {"", "spoiled", "warning"} :
          /\ pc' = [pc EXCEPT ![Dash] = "resolve"]
          /\ Enter(Dash, [NoEval EXCEPT
                             !.device_id = device_id,
                             !.only = alert_type,
                             !.preUnres = UnresolvedIds(device_id)])
    /\ UNCHANGED <<now, alerts, nextId, readings, alert_phone, twilio, calls,
                   nEvals, nFaults, feed, settings>>

\* resolve_alerts(device_id, alert_type), from its query to its commit; the
\* pipelines call it with no alert_type.
resolve_alerts_commit(p) ==
    /\ pc[p] = "resolve"
    /\ \E fault \in Faults :
          /\ Count(fault)
          /\ IF fault
             THEN Raise(p, ev[p], "history") /\ alerts' = alerts
             ELSE /\ alerts' = resolve_alerts(alerts, ev[p].device_id,
                                               ev[p].only)
                  /\ pc' = [pc EXCEPT ![p] = "done"]
                  /\ Enter(p, [ev[p] EXCEPT !.outcome = "success"])
    /\ UNCHANGED <<now, nextId, readings, alert_phone, twilio, calls, nEvals,
                   feed, settings>>

\* The evaluation returns (or raises) to its caller.
Return(p) ==
    /\ pc[p] = "done"
    /\ pc' = [pc EXCEPT ![p] = "idle"]
    /\ ev' = [ev EXCEPT ![p] = NoEval]
    /\ UNCHANGED <<now, alerts, nextId, readings, alert_phone, twilio, calls,
                   nEvals, nFaults, feed, settings>>

\* ------------------------------------------------- tasks.cleanup_old_data
\* The Alert query of cleanup_old_data without its is_resolved filter.
old_alerts_any(table, cutoff_date) ==
    {a \in table : a.timestamp < cutoff_date}

\* The Alert rows cleanup_old_data deletes: timestamp < cutoff_date and
\* is_resolved == True.
old_alerts(table, cutoff_date) ==
    {a \in table : a.timestamp < cutoff_date /\ a.is_resolved = TRUE}

\* The hourly housekeeping task: one transaction deleting the old readings
\* and the old resolved alerts. On an exception it rolls back and raises,
\* which changes nothing.
cleanup_old_data ==
    /\ LET cutoff_date == now - RetentionMinutes
       IN  /\ readings' = {r \in readings : ~(r.timestamp < cutoff_date)}
           /\ alerts' = alerts \ old_alerts(alerts, cutoff_date)
    /\ UNCHANGED <<now, nextId, alert_phone, twilio, calls, pc, ev, nEvals,
                   nFaults, feed, settings>>

Next ==
    \/ Tick
    \/ \E p \in Tasks : collect_device_data(p)
    \/ \E p \in Tasks : collect_device_data_again(p)
    \/ process_reading
    \/ process_reading_again
    \/ process_reading_check
    \/ \E p \in Procs : create_alert_notify(p)
    \/ \E p \in Procs : create_alert_commit(p)
    \/ \E p \in Procs : resolve_alerts_commit(p)
    \/ \E p \in Procs : Return(p)

Spec == Init /\ [][Next]_vars

\* The ratio sweep: each reading is evaluated once, by either pipeline.
NextWide ==
    \/ Tick
    \/ \E p \in Tasks : collect_device_data(p)
    \/ process_reading
    \/ process_reading_check
    \/ \E p \in Procs : create_alert_notify(p)
    \/ \E p \in Procs : create_alert_commit(p)
    \/ \E p \in Procs : resolve_alerts_commit(p)
    \/ \E p \in Procs : Return(p)

SpecWide == InitWide /\ [][NextWide]_vars

SpecRaw == InitRaw /\ [][NextWide]_vars

SpecConfig == InitConfig /\ [][NextWide]_vars

\* The collection tasks, and resolve_alerts called on its own, all within
\* one minute.
NextResolve ==
    \/ \E p \in Tasks : collect_device_data(p)
    \/ \E p \in Tasks : collect_device_data_again(p)
    \/ \E p \in Tasks : create_alert_commit(p)
    \/ \E p \in Procs : resolve_alerts_commit(p)
    \/ \E p \in Procs : Return(p)
    \/ resolve_alerts_call

SpecResolve == Init /\ [][NextResolve]_vars

\* The Celery worker: the collection tasks and the housekeeping task.
NextCleanup ==
    \/ Tick
    \/ \E p \in Tasks : collect_device_data(p)
    \/ \E p \in Tasks : collect_device_data_again(p)
    \/ \E p \in Tasks : create_alert_commit(p)
    \/ \E p \in Tasks : resolve_alerts_commit(p)
    \/ \E p \in Tasks : Return(p)
    \/ cleanup_old_data

SpecCleanup == InitCleanup /\ [][NextCleanup]_vars

TypeOK ==
    /\ now \in ClockReadings \cup DayReadings
    /\ nEvals \in 0..MaxEvals
    /\ nFaults \in 0..MaxFaults
    /\ \A a \in alerts : a.alert_type \in {"spoiled", "warning"}
    /\ \A p \in Procs :
          pc[p] \in {"idle", "check", "create", "insert", "resolve", "done"}


\* ==================================================================== claims
RowOf(id) == CHOOSE a \in alerts : a.id = id

Breach == {"spoiled", "warning"}

Completed(p) == pc[p] = "done" /\ ev[p].outcome = "success"

\* The rows a step adds to the alerts table.
NewAlerts == {a \in alerts' : \A b \in alerts : b.id # a.id}

\* C1 (invariant I1, suppression): no step of either pipeline adds an Alert
\* row of kind k for device d while the table holds an unresolved row of
\* (d, k) whose timestamp lies inside k's cooldown window.
C1_Suppression ==
    [][\A a \in NewAlerts :
          \A b \in alerts :
             ~(/\ b.device_id = a.device_id
               /\ b.alert_type = a.alert_type
               /\ ~b.is_resolved
               /\ b.timestamp >= now - Cooldown(a.alert_type))]_vars

\* C2 (invariant I2, resolution): when the evaluation of a reading with
\* ratio > RATIO_FRESH has completed, every row of its device that was
\* unresolved when the reading arrived is resolved, whatever its kind, and
\* the evaluation has created no row.
C2_FreshResolves ==
    \A p \in Procs :
       (Completed(p) /\ ev[p].ratio > RATIO_FRESH) =>
          /\ \A a \in alerts : a.id \in ev[p].preUnres => a.is_resolved
          /\ ev[p].created = 0

\* A fresh reading has completed for a device that had an unresolved
\* spoiled row and an unresolved warning row.
C2_Witness ==
    \E p \in Procs :
       /\ Completed(p)
       /\ ev[p].ratio > RATIO_FRESH
       /\ \E i, j \in ev[p].preUnres :
             /\ RowOf(i).alert_type = "spoiled"
             /\ RowOf(j).alert_type = "warning"
             /\ RowOf(i).is_resolved
             /\ RowOf(j).is_resolved

\* C3: two evaluations in flight together for one device never both create
\* an unresolved row of the same kind.
C3_NoDoubleCreate ==
    \A p, q \in Procs :
       (/\ p # q
        /\ pc[p] = "done" /\ pc[q] = "done"
        /\ ev[p].created # 0 /\ ev[q].created # 0
        /\ ev[p].device_id = ev[q].device_id
        /\ ev[p].kind = ev[q].kind)
       => ~(~RowOf(ev[p].created).is_resolved
            /\ ~RowOf(ev[q].created).is_resolved)

\* C4: when the notifier was unconfigured or its call raised, and the store
\* itself did not fail, create_alert has persisted the row with call_sid
\* NULL and the evaluation ends as a success.
C4_NotifierFailureKeepsAlert ==
    \A p \in Procs :
       (ev[p].notified \in {"unconfigured", "raised"}
           /\ ev[p].faulted # "history") =>
          /\ pc[p] \in {"insert", "done"}
          /\ ev[p].call_sid = ""
          /\ pc[p] = "done" =>
                /\ ev[p].outcome = "success"
                /\ ev[p].created # 0
                /\ RowOf(ev[p].created).call_sid = ""

\* create_alert has returned a row although the call it placed raised.
C4_Witness ==
    \E p \in Procs :
       /\ pc[p] = "done"
       /\ ev[p].notified = "raised"
       /\ ev[p].created # 0
       /\ RowOf(ev[p].created).call_sid = ""

\* C5: a completed evaluation of a WARNING or SPOILED reading that found no
\* unresolved row of its device and kind inside the cooldown window has
\* created one row of that kind, with or without a recipient.
C5_BreachCreates ==
    \A p \in Procs :
       (Completed(p) /\ ev[p].kind \in Breach /\ ev[p].prior # "active") =>
          /\ ev[p].created # 0
          /\ RowOf(ev[p].created).alert_type = ev[p].kind

\* C6: the notifier is only ever invoked for a recipient: every invocation
\* carries a phone number, and an evaluation that invoked it is a dashboard
\* run with the alert phone set.
C6_NoRecipientNoCall ==
    /\ \A i \in DOMAIN calls : calls[i].to # ""
    /\ \A p \in Procs :
          ev[p].notified # "none" =>
             /\ p = Dash
             /\ alert_phone # ""
             /\ ev[p].phone = alert_phone

\* Evaluations without a recipient have created rows of both kinds and the
\* notifier was never invoked.
C6_Witness ==
    /\ calls = << >>
    /\ \E a, b \in alerts :
          /\ a.alert_type = "spoiled" /\ b.alert_type = "warning"
          /\ a.phone_number = "" /\ b.phone_number = ""
    /\ \E p \in Procs : Completed(p) /\ ev[p].kind \in Breach

\* C7: an evaluation in which the alert history store raised (the cooldown
\* query, the insert or the resolve) ends by raising to its caller, not by
\* returning a value.
C7_StoreFailureSurfaces ==
    \A p \in Procs :
       (pc[p] = "done" /\ ev[p].faulted = "history") =>
          ev[p].outcome = "raised"

\* The classification of the design: the classes whose condition a ratio
\* meets.
SeverityClasses(ratio) ==
    (IF ratio <= RATIO_WARNING THEN {"spoiled"} ELSE {})
        \cup (IF RATIO_WARNING < ratio /\ ratio <= RATIO_FRESH
              THEN {"warning"} ELSE {})
        \cup (IF ratio > RATIO_FRESH THEN {"fresh"} ELSE {})

\* C8: every ratio meets exactly one of the three class conditions, each
\* pipeline gives a reading that class, and the two pipelines' classifiers
\* agree on it.
C8_Classification ==
    \A p \in Procs :
       ev[p].kind # "none" =>
          /\ SeverityClasses(ev[p].ratio) = {ev[p].kind}
          /\ ClassifyTask(ev[p].ratio) = ClassifyApp(ev[p].ratio)
          /\ SeverityClasses(ev[p].ratio) = {ClassifyApp(ev[p].ratio)}

\* The dashboard has evaluated a reading on the upper boundary, 0.8, as a
\* WARNING and created its row.
C8_Witness ==
    /\ Completed(Dash)
    /\ ev[Dash].ratio = RATIO_FRESH
    /\ ev[Dash].kind = "warning"
    /\ ev[Dash].created # 0

\* C9 (cooldown expiry): a completed breach evaluation that found only
\* unresolved rows older than the window has created a row, and one that
\* found an unresolved row inside the window (the reading at minute 10 after
\* the one at minute 0) has created none.
C9_CooldownExpiry ==
    \A p \in Procs :
       (Completed(p) /\ ev[p].kind \in Breach) =>
          /\ ev[p].prior = "expired" => ev[p].created # 0
          /\ ev[p].prior = "active" => ev[p].created = 0

\* C10: an evaluation re-run at once on the reading just evaluated, with
\* nothing else in flight, adds no row and invokes no notifier.
C10_RetryIdempotent ==
    \A p \in Procs :
       (Completed(p) /\ ev[p].retry) =>
          /\ ev[p].created = 0
          /\ ev[p].notified = "none"

\* C11: RESOLVED is terminal. No step turns a row's is_resolved from TRUE
\* back to FALSE, and a step that creates a row (a breach after a resolution
\* included) adds one unresolved row under a new id and leaves every row the
\* table held as it was.
C11_ResolvedTerminal ==
    [][/\ \A a \in alerts : \A b \in alerts' :
             (b.id = a.id /\ a.is_resolved) => b.is_resolved
       /\ NewAlerts # {} =>
             /\ alerts \subseteq alerts'
             /\ Cardinality(NewAlerts) = 1
             /\ \A a \in NewAlerts : ~a.is_resolved]_vars

\* A breach after a resolution: the device has a resolved row and a newer,
\* unresolved row of the same kind.
C11_Witness ==
    \E a, b \in alerts :
       /\ a.device_id = b.device_id
       /\ a.alert_type = b.alert_type
       /\ a.is_resolved /\ ~b.is_resolved
       /\ a.id < b.id

\* C12: a row's device id, kind, ratio value and timestamp (and its phone
\* number and call_sid) never change once it is in the table; the only
\* change to an existing row is is_resolved going to TRUE, made by the step
\* that commits resolve_alerts.
C12_RecordImmutable ==
    [][\A a \in alerts : \A b \in alerts' :
          b.id = a.id =>
             /\ b.device_id = a.device_id
             /\ b.alert_type = a.alert_type
             /\ b.ratio_value = a.ratio_value
             /\ b.timestamp = a.timestamp
             /\ b.phone_number = a.phone_number
             /\ b.call_sid = a.call_sid
             /\ b.is_resolved # a.is_resolved =>
                   /\ b.is_resolved
                   /\ \E p \in Procs :
                         pc[p] = "resolve" /\ pc'[p] = "done"]_vars

\* A row created at an earlier clock reading has been resolved, and the
\* evaluation that resolved it is still at its return.
C12_Witness ==
    \E a \in alerts, p \in Procs :
       /\ a.is_resolved
       /\ a.timestamp < now
       /\ Completed(p)
       /\ a.id \in ev[p].preUnres

\* The ratio rule of the design: an explicit ratio is used as supplied, zero
\* included; without one the ratio is Rs / Ro when Ro > 0, and 0 otherwise.
DesignRatio(raw_data) ==
    IF raw_data.ratio.k \in {"num", "numstr"} THEN raw_data.ratio.v
    ELSE IF safe_float(raw_data.Ro) > 0
    THEN (safe_float(raw_data.Rs) * 100) \div safe_float(raw_data.Ro)
    ELSE 0

\* C13: the ratio of every evaluated reading is the one the design's rule
\* derives from its raw mapping.
C13_RatioDerivation ==
    \A p \in Procs :
       ev[p].kind # "none" => ev[p].ratio = DesignRatio(ev[p].raw)

\* C14: the ratio of every evaluated reading is non-negative, whatever the
\* raw mapping carried.
C14_RatioNonNegative ==
    \A p \in Procs : ev[p].kind # "none" => ev[p].ratio >= 0

\* C15: no reading is evaluated while RATIO_WARNING > RATIO_FRESH: such a
\* configuration does not survive startup.
C15_ThresholdOrder ==
    \A p \in Procs :
       ev[p].kind # "none" =>
          settings.RATIO_WARNING <= settings.RATIO_FRESH

\* C16: one cooldown decision. An evaluation that has persisted a row for a
\* recipient has invoked the notifier for it.
C16_OneCooldownDecision ==
    \A p \in Procs :
       (pc[p] = "done" /\ ev[p].created # 0 /\ ev[p].phone # "") =>
          ev[p].notified # "none"

\* C17: a row has a call_sid only if it has a phone number and a call to
\* that number for its device and kind was placed successfully; the row of
\* an evaluation that had no recipient, or placed no call, or whose call
\* failed, has none.
C17_CallSidOnlyWhenSent ==
    /\ \A a \in alerts :
          a.call_sid # "" =>
             /\ a.phone_number # ""
             /\ \E i \in DOMAIN calls :
                   calls[i] = [device_id |-> a.device_id,
                               alert_type |-> a.alert_type,
                               to |-> a.phone_number, result |-> "sent"]
    /\ \A p \in Procs :
          (/\ pc[p] = "done"
           /\ ev[p].created # 0
           /\ (ev[p].phone = "" \/ ev[p].notified # "sent")) =>
             RowOf(ev[p].created).call_sid = ""

\* The table holds a row with a call_sid, and a later evaluation whose
\* call raised has created its row without one.
C17_Witness ==
    /\ \E a \in alerts : a.call_sid # "" /\ a.phone_number # ""
    /\ \E p \in Procs :
          /\ Completed(p)
          /\ ev[p].notified = "raised"
          /\ ev[p].created # 0
          /\ RowOf(ev[p].created).phone_number # ""
          /\ RowOf(ev[p].created).call_sid = ""

\* The unresolved rows of exactly (device, kind) inside kind's window.
SamePairActive(device_id, kind) ==
    {a \in alerts : /\ a.device_id = device_id
                    /\ a.alert_type = kind
                    /\ ~a.is_resolved
                    /\ now - a.timestamp <= Cooldown(kind)}

\* C18: suppression is per exact (device, kind). Whenever a cooldown query
\* answers "suppress" (process_reading skips create_alert, or create_alert
\* skips the call), the table holds an unresolved row of that very device
\* and kind inside the window: rows of the other kind or of another device
\* suppress nothing.
C18_ExactPair ==
    [][\A p \in Procs :
          /\ (pc[p] = "check" /\ pc'[p] = "done"
                 /\ ev'[p].outcome = "success") =>
                SamePairActive(ev[p].device_id, ev[p].kind) # {}
          /\ (pc[p] = "create" /\ pc'[p] = "insert"
                 /\ ev'[p].notified = "none") =>
                SamePairActive(ev[p].device_id, ev[p].kind) # {}]_vars

\* The dashboard has created and notified a spoiled row for a device that
\* has an unresolved warning row inside the window, while another device has
\* an unresolved spoiled row inside the window.
C18_Witness ==
    /\ Completed(Dash)
    /\ ev[Dash].kind = "spoiled"
    /\ ev[Dash].created # 0
    /\ ev[Dash].notified # "none"
    /\ \E w, o \in alerts :
          /\ w.device_id = ev[Dash].device_id
          /\ w.alert_type = "warning"
          /\ o.device_id # ev[Dash].device_id
          /\ o.alert_type = "spoiled"
          /\ w.id < ev[Dash].created /\ o.id < ev[Dash].created
          /\ ~w.is_resolved /\ ~o.is_resolved
          /\ now - w.timestamp <= CooldownSpoiled
          /\ now - o.timestamp <= CooldownSpoiled

C20_OnlyOldResolvedDeleted ==
    [][\A a \in alerts :
          (\A b \in alerts' : b.id # a.id) =>
             /\ a.is_resolved
             /\ a.timestamp < now - RetentionMinutes
             /\ pc' = pc]_vars

\* The housekeeping task has removed a row while an unresolved row older
\* than 30 days is still in the table.
C20_Witness ==
    /\ Cardinality(alerts) < nextId - 1
    /\ \E a \in alerts :
          ~a.is_resolved /\ a.timestamp < now - RetentionMinutes

\* C21: a resolved record does not suppress. A completed breach evaluation
\* that found, as its reading arrived, no unresolved row of its device and
\* kind but a resolved one inside the cooldown window, has created a new
\* row.
C21_ResolvedDoesNotSuppress ==
    \A p \in Procs :
       (/\ Completed(p)
        /\ ev[p].kind \in Breach
        /\ ev[p].prior = "resolved") =>
          ev[p].created # 0

\* C22: the step that commits resolve_alerts(device_id[, alert_type])
\* leaves unchanged every row of another device, every row that was already
\* resolved and, when an alert_type is given, every row of the other kind.
C22_ResolveFrame ==
    [][\A p \in Procs :
          (/\ pc[p] = "resolve" /\ pc'[p] = "done"
           /\ ev'[p].outcome = "success") =>
             \A a \in alerts :
                (\/ a.device_id # ev[p].device_id
                 \/ a.is_resolved
                 \/ (ev[p].only # "" /\ a.alert_type # ev[p].only)) =>
                   a \in alerts']_vars

\* resolve_alerts(device, "spoiled") has resolved the device's spoiled row
\* while its warning row and another device's row are still unresolved.
C22_Witness ==
    /\ Completed(Dash)
    /\ ev[Dash].only = "spoiled"
    /\ \E s, w, o \in alerts :
          /\ s.device_id = ev[Dash].device_id
          /\ s.alert_type = "spoiled"
          /\ s.id \in ev[Dash].preUnres
          /\ s.is_resolved
          /\ w.device_id = ev[Dash].device_id
          /\ w.alert_type = "warning"
          /\ ~w.is_resolved
          /\ o.device_id # ev[Dash].device_id
          /\ ~o.is_resolved

\* A mapping none of whose Ro, Rs and ratio is a number or a numeric string.
Unusable(raw_data) ==
    /\ raw_data.Ro.k \in {"absent", "null", "bad"}
    /\ raw_data.Rs.k \in {"absent", "null", "bad"}
    /\ raw_data.ratio.k \in {"absent", "null", "bad"}

\* C23: a mapping with no usable Ro, Rs or ratio is evaluated as ratio 0
\* and SPOILED: it never takes the resolving branch, its reading is stored
\* with is_alert true once save_reading has committed, and the collection
\* task that completes on it has created a spoiled row for the device.
C23_UnusableIsSpoiled ==
    \A p \in Procs :
       (ev[p].kind # "none" /\ Unusable(ev[p].raw)) =>
          /\ ev[p].ratio = 0
          /\ ev[p].kind = "spoiled"
          /\ pc[p] \in {"check", "create", "insert", "done"}
          /\ ev[p].faulted \notin {"fetch", "commit"} =>
                \E r \in readings : /\ r.device_id = ev[p].device_id
                                     /\ r.ratio = 0
                                     /\ r.is_alert
          /\ (p \in Tasks /\ Completed(p)) =>
                \E a \in alerts : /\ a.id = ev[p].created
                                   /\ a.device_id = ev[p].device_id
                                   /\ a.alert_type = "spoiled"
                                   /\ ~a.is_resolved

\* A collection task has completed on a mapping with nothing usable: the
\* reading is stored as an alert reading and a spoiled row was created.
C23_Witness ==
    \E p \in Tasks :
       /\ Completed(p)
       /\ Unusable(ev[p].raw)
       /\ ev[p].created # 0
       /\ \E a \in alerts : a.id = ev[p].created /\ a.alert_type = "spoiled"
       /\ \E r \in readings : /\ r.device_id = ev[p].device_id
                                /\ r.ratio = 0
                                /\ r.is_alert

\* C24: in collect_device_data the reading is stored before the alert
\* step, and the two are not atomic. A task is at the alert step only with
\* its reading stored; the step on which the fetch, the reading's commit or
\* the cache write raises leaves the alerts table as it was and ends the
\* task with status "error"; the step on which the alert step raises ends
\* it with status "error" too and the stored reading remains.
C24_SaveThenAlert ==
    [][\A p \in Tasks :
          /\ pc'[p] \in {"insert", "resolve"} =>
                ReadingRow(ev'[p].device_id, ev'[p].ratio) \in readings'
          /\ (/\ ev[p].faulted = "none"
              /\ ev'[p].faulted \in {"fetch", "commit", "cache"}) =>
                /\ alerts' = alerts
                /\ nextId' = nextId
                /\ pc'[p] = "done"
                /\ ev'[p].outcome = "error"
                /\ ev'[p].created = 0
          /\ (/\ ev[p].faulted = "none"
              /\ ev'[p].faulted = "history") =>
                /\ pc[p] \in {"insert", "resolve"}
                /\ pc'[p] = "done"
                /\ ev'[p].outcome = "error"
                /\ alerts' = alerts
                /\ readings' = readings
                /\ ReadingRow(ev[p].device_id, ev[p].ratio) \in readings']_vars

\* A collection task has ended with status "error" because its alert step
\* raised: its reading is stored and it created no row.
C24_Witness ==
    \E p \in Tasks :
       /\ pc[p] = "done"
       /\ ev[p].faulted = "history"
       /\ ev[p].outcome = "error"
       /\ ev[p].kind \in Breach
       /\ ev[p].created = 0
       /\ ReadingRow(ev[p].device_id, ev[p].ratio) \in readings
       /\ \A a \in alerts : a.device_id # ev[p].device_id

====
